---- MODULE Spec2Model ----
(***************************************************************************)
(* State-machine model of the halt-workspace tool                          *)
(* (src/halt-workspace): one "stop" invocation of main.py followed by one  *)
(* "restore" invocation, against a remote workspace holding permission     *)
(* assignments, jobs, clusters, active job runs and SQL warehouses.        *)
(* Every remote request is one step, so that the order of snapshot writes, *)
(* mutating calls and process exits is observable.                         *)
(***************************************************************************)
EXTENDS Integers, Sequences, FiniteSets, TLC

(* ---------------------------- bounds ---------------------------------- *)
NumPrincipals == 2
MaxJobs == 2
MaxItems == 2
MaxPages == 2
MaxExternal == 1
MaxSnapshots == 3

(* ------------------------ program constants --------------------------- *)
\* response.status_code compared against 200 (check_errors)
HTTP_OK == 200
\* sys.exit() without argument: exit status 0
SysExitCode == 0
\* an uncaught Python exception ends the interpreter with status 1
UncaughtExitCode == 1
\* the script runs to its end
NormalExitCode == 0
\* params["page_token"] = None; the tokens the server hands out are 1, 2, ...
NoToken == 0

\* the status of a response the session hands to the caller: 200, or an error
\* status the transport does not retry
Statuses == {HTTP_OK, 404}

Principals == 1..NumPrincipals
Perms == {"USER", "ADMIN"}
NoPerm == "NONE"

\* names of the snapshot files, one per controller
PERM == "permission_assignments"
WF == "workflows"
RUNS == "job_runs"
APC == "all_purpose_compute_clusters"
SQLW == "sql_warehouses"
Kinds == {PERM, WF, RUNS, APC, SQLW}

\* halt_environment: permissions, workflows, compute, job runs, warehouses
HaltOrder == <<PERM, WF, APC, RUNS, SQLW>>
\* restore_environment: permissions, workflows, job runs, compute, warehouses
RestoreOrder == <<PERM, WF, RUNS, APC, SQLW>>

(* ----------------------------- records -------------------------------- *)
AbsentField == "-"
NoSchedule == [pause_status |-> "ABSENT", quartz_cron_expression |-> AbsentField,
               timezone_id |-> AbsentField]
NoMech == [pause_status |-> "ABSENT", other |-> AbsentField]

Schedules == {NoSchedule} \cup
    { [pause_status |-> s, quartz_cron_expression |-> c[1], timezone_id |-> c[2]] :
        s \in {"PAUSED", "UNPAUSED"}, c \in {<<"c1", "UTC">>, <<"c2", "CET">>} }
Mechs == {NoMech} \cup
    { [pause_status |-> s, other |-> "cfg"] : s \in {"PAUSED", "UNPAUSED"} }

\* settings of a job: at most one of schedule / continuous / trigger is set
JobSettings ==
    { [schedule |-> s, continuous |-> NoMech, trigger |-> NoMech] : s \in Schedules } \cup
    { [schedule |-> NoSchedule, continuous |-> m, trigger |-> NoMech] : m \in Mechs } \cup
    { [schedule |-> NoSchedule, continuous |-> NoMech, trigger |-> m] : m \in Mechs }

RECURSIVE SeqsUpTo(_, _)
SeqsUpTo(S, n) ==
    IF n = 0 THEN {<<>>}
    ELSE LET shorter == SeqsUpTo(S, n - 1)
         IN shorter \cup { Append(s, x) : s \in {t \in shorter : Len(t) = n - 1}, x \in S }

Range(s) == { s[i] : i \in 1..Len(s) }

RECURSIVE Flatten(_)
Flatten(ss) == IF ss = <<>> THEN <<>> ELSE Head(ss) \o Flatten(Tail(ss))

RECURSIVE SelectIdx(_, _, _)
\* indices i >= from of s with Test(s[i]) kept in order (list comprehension)
SelectIdx(s, from, keep) ==
    IF from > Len(s) THEN <<>>
    ELSE (IF from \in keep THEN <<s[from]>> ELSE <<>>) \o SelectIdx(s, from + 1, keep)

Count(f, v) == Cardinality({ i \in DOMAIN f : f[i] = v })

VARIABLES
    remotePerms,        \* principal -> permission level, NoPerm when unassigned
    remoteJobs,         \* sequence of job settings, job_id = index
    remoteClusters,     \* sequence of cluster states, cluster_id = index
    remoteRuns,         \* sequence of BOOLEAN, run_id = index, TRUE = active
    remoteWarehouses,   \* sequence of warehouse states, id = index
    omitEmpty,          \* the API leaves an empty array out of the response
    dirs,               \* restore_states: "none" (missing, or no directory of the
                        \* environment in it) or "rundir" (this run's directory)
    files,              \* kind -> snapshot file of the run directory
    ignored_principals, \* --ignored-principals of the stop command
    cmd,                \* "stop" or "restore": the running invocation
    ctl,                \* controller whose operation is running
    pc,                 \* position inside that operation
    term,               \* "running", "done", "sysexit" or "exception"
    returned,           \* controllers whose operation returned normally
    serverPages,        \* pages the list endpoint serves for the current fetch
    results,            \* combine_paginated_results: accumulated response
    page_token,         \* params["page_token"]
    reqTokens,          \* page_token carried by each GET of the current fetch
    principal_ids,      \* stop(): principals to revoke, after the ignore filter
    idsResponse,        \* stop(): principal ids as listed by _get_principal_ids
    assignments,        \* restore(): assignments read from the snapshot
    taskState,          \* executor futures: "pending", "ok", "http" or "exc"
    todo,               \* sequential loops: item ids the loop iterates over
    idx,                \* sequential loops: position in todo
    mech,               \* workflow loops: 1 schedule, 2 continuous, 3 trigger
    calls,              \* mutating requests issued by the running invocation
    updates,            \* jobs/update payloads sent by the running invocation
    reported,           \* count printed by the permissions operation, -1 if none
    logged,             \* "Error removing/restoring permission" lines printed
    interference,       \* whether other parties change assignments in this run
    external,           \* external changes made to the assignments during stop
    cleanups,           \* snapshot files removed by hand between the invocations
    failed,             \* a sequential required call of the invocation got a non-200
    restore_states,     \* directories of restore_states, least recently modified first
    rtl_env,            \* --env of the restore command that chose a restore point
    backup_folder       \* the directory choose_restore_point selected

remoteVars == <<remotePerms, remoteJobs, remoteClusters, remoteRuns, remoteWarehouses, omitEmpty>>
fetchVars == <<serverPages, results, page_token, reqTokens>>
permVars == <<principal_ids, idsResponse, assignments, taskState>>
loopVars == <<todo, idx, mech>>
procVars == <<cmd, ctl, pc, term, returned>>
logVars == <<calls, updates, reported, logged>>
pointVars == <<restore_states, rtl_env, backup_folder>>
runVars == <<remoteVars, dirs, files, ignored_principals, procVars, fetchVars, permVars,
             loopVars, logVars, interference, external, cleanups, failed>>
vars == <<runVars, pointVars>>

(* ------------------------- remote workspace --------------------------- *)
\* a JSON list response: the array is left out when it is empty and the API omits it
ListJSON(items) == [has |-> ~(items = <<>> /\ omitEmpty), items |-> items]
EmptyJSON == [has |-> FALSE, items |-> <<>>]
NoFile == [exists |-> FALSE, has |-> FALSE, items |-> <<>>]

\* GET .../permissionassignments: the assignments in principal order
Assigned(rp) ==
    SelectIdx([p \in Principals |-> [principal_id |-> p, permissions |-> rp[p]]], 1,
              { p \in Principals : rp[p] # NoPerm })

\* the collection a list endpoint holds for a controller
RemoteList(k) ==
    CASE k = WF -> [i \in 1..Len(remoteJobs) |-> [job_id |-> i, settings |-> remoteJobs[i]]]
      [] k = APC -> [i \in 1..Len(remoteClusters) |-> [cluster_id |-> i, state |-> remoteClusters[i]]]
      [] k = RUNS -> SelectIdx([i \in 1..Len(remoteRuns) |-> [run_id |-> i]], 1,
                               { i \in 1..Len(remoteRuns) : remoteRuns[i] })
      [] k = SQLW -> [i \in 1..Len(remoteWarehouses) |-> [id |-> i, state |-> remoteWarehouses[i]]]

\* one page of a paginated list response
Page(items, i, n) ==
    [has |-> ~(items = <<>> /\ omitEmpty), items |-> items,
     next_page_token |-> IF i < n THEN i ELSE NoToken, has_more |-> i < n]

CutSeqs(n, len) ==
    { c \in [0..n -> 0..len] : c[0] = 0 /\ c[n] = len /\ \A i \in 1..n : c[i - 1] <= c[i] }

\* every way the server may cut a collection into at most MaxPages pages
Splits(s) ==
    UNION { { [i \in 1..n |-> Page(SubSeq(s, c[i - 1] + 1, c[i]), i, n)] : c \in CutSeqs(n, Len(s)) } :
            n \in 1..MaxPages }

\* the page the server answers a GET carrying page_token with
ServerGet(pages, token) == pages[IF token = NoToken THEN 1 ELSE token + 1]

(* ------------------------- restore_states ----------------------------- *)
\* names are strings, modelled as sequences of characters
EnvNames == { <<"d", "e", "v">>, <<"d", "e", "v", "2">>, <<"p", "r", "d">> }
\* values of start_time
StartTimes == { <<"1">>, <<"2">> }
NoName == <<>>
\* no directory selected
NoFolder == [name |-> NoName, env |-> NoName]

(* ------------------------------ Init ---------------------------------- *)
PinPerms == [p \in Principals |-> IF p = 1 THEN "ADMIN" ELSE NoPerm]
PinJobs == << [schedule |-> [pause_status |-> "UNPAUSED", quartz_cron_expression |-> "c1",
                             timezone_id |-> "UTC"],
               continuous |-> NoMech, trigger |-> NoMech] >>

\* the workspace before the stop command: one resource family varies at a time
VaryPermissions ==
    /\ remotePerms \in [Principals -> Perms \cup {NoPerm}]
    /\ ignored_principals \in SUBSET Principals
    /\ remoteJobs = <<>>
    /\ remoteClusters = <<>>
    /\ remoteRuns = <<>>
    /\ remoteWarehouses = <<>>

VaryJobs ==
    /\ remotePerms = PinPerms
    /\ ignored_principals = {1}
    /\ remoteJobs \in SeqsUpTo(JobSettings, MaxJobs)
    /\ remoteClusters = <<>>
    /\ remoteRuns = <<>>
    /\ remoteWarehouses = <<>>

VaryClusters ==
    /\ remotePerms = PinPerms
    /\ ignored_principals = {1}
    /\ remoteJobs = PinJobs
    /\ remoteClusters \in SeqsUpTo({"RUNNING", "TERMINATED"}, MaxItems)
    /\ remoteRuns = <<TRUE>>
    /\ remoteWarehouses = <<"RUNNING">>

VaryRuns ==
    /\ remotePerms = PinPerms
    /\ ignored_principals = {1}
    /\ remoteJobs = PinJobs
    /\ remoteClusters = <<"RUNNING">>
    /\ remoteRuns \in SeqsUpTo(BOOLEAN, MaxItems)
    /\ remoteWarehouses = <<"RUNNING">>

VaryWarehouses ==
    /\ remotePerms = PinPerms
    /\ ignored_principals = {1}
    /\ remoteJobs = PinJobs
    /\ remoteClusters = <<"RUNNING">>
    /\ remoteRuns = <<TRUE>>
    /\ remoteWarehouses \in SeqsUpTo({"RUNNING", "STOPPED"}, MaxItems)

\* a second stop: everything was stopped by an earlier one
AlreadyStopped ==
    /\ remotePerms = PinPerms
    /\ ignored_principals = {1}
    /\ remoteJobs = << [schedule |-> [pause_status |-> "PAUSED", quartz_cron_expression |-> "c1",
                                      timezone_id |-> "UTC"],
                        continuous |-> NoMech, trigger |-> NoMech],
                       [schedule |-> NoSchedule, continuous |-> NoMech,
                        trigger |-> [pause_status |-> "PAUSED", other |-> "cfg"]] >>
    /\ remoteClusters = <<"TERMINATED">>
    /\ remoteRuns = <<FALSE>>
    /\ remoteWarehouses = <<"STOPPED">>

\* assignments are changed from outside only in the runs where they vary
InitRemote ==
    \/ VaryPermissions /\ interference = TRUE
    \/ /\ VaryJobs \/ VaryClusters \/ VaryRuns \/ VaryWarehouses \/ AlreadyStopped
       /\ interference = FALSE

InitRest ==
    /\ omitEmpty \in BOOLEAN
    /\ dirs = "none"
    /\ files = [k \in Kinds |-> NoFile]
    /\ cmd = "stop" /\ ctl = PERM /\ pc = "start" /\ term = "running" /\ returned = {}
    /\ serverPages = <<>> /\ results = EmptyJSON /\ page_token = NoToken /\ reqTokens = <<>>
    /\ principal_ids = <<>> /\ idsResponse = <<>> /\ assignments = <<>> /\ taskState = <<>>
    /\ todo = <<>> /\ idx = 1 /\ mech = 1
    /\ calls = {} /\ updates = {} /\ reported = -1 /\ logged = 0
    /\ external = 0 /\ cleanups = 0
    /\ failed = FALSE
    /\ restore_states = <<>> /\ rtl_env = NoName /\ backup_folder = NoFolder

Init == InitRemote /\ InitRest

(* ------------------------- control helpers ---------------------------- *)
Running == term = "running"

\* faulty variant: a non-200 response is printed and the caller goes on
check_errors_lenient(status) == TRUE

\* check_errors passes exactly the 200 responses
check_errors(status) == status = HTTP_OK

\* exit status of the process once it has ended
ExitStatus ==
    CASE term = "sysexit" -> SysExitCode
      [] term = "exception" -> UncaughtExitCode
      [] OTHER -> NormalExitCode

\* the response of a sequential required call: a non-200 one is remembered
Received(status) == failed' = (failed \/ status # HTTP_OK)

Goto(p) == pc' = p /\ UNCHANGED <<cmd, ctl, term, returned>>
\* sys.exit(): SystemExit ends the process
SysExit == term' = "sysexit" /\ UNCHANGED <<cmd, ctl, pc, returned>>
\* an exception nobody catches ends the process
Raise == term' = "exception" /\ UNCHANGED <<cmd, ctl, pc, returned>>

Order == IF cmd = "stop" THEN HaltOrder ELSE RestoreOrder
Pos(k) == CHOOSE i \in 1..Len(Order) : Order[i] = k

\* the controller's operation returns; the next statement of halt_environment or
\* restore_environment calls the next controller
Return ==
    /\ returned' = returned \cup {ctl}
    /\ cmd' = cmd
    /\ IF Pos(ctl) = Len(Order)
         THEN term' = "done" /\ UNCHANGED <<ctl, pc>>
         ELSE term' = term /\ ctl' = Order[Pos(ctl) + 1] /\ pc' = "start"

\* faulty variant: the snapshot is not written
store_nothing(state_content, name) == UNCHANGED <<files, dirs>>

\* store(state_content, name): makedirs + json.dump
store(state_content, name) ==
    /\ files' = [files EXCEPT ![name] = [exists |-> TRUE, has |-> state_content.has,
                                         items |-> state_content.items]]
    /\ dirs' = "rundir"

Call(k, op, id) == [kind |-> k, op |-> op, id |-> id]

(* -------------------- WorkspacePermissions.stop ----------------------- *)
\* permissions = self._get_permissions()
PermGet ==
    /\ Running /\ cmd = "stop" /\ ctl = PERM /\ pc = "start"
    /\ \E status \in Statuses :
         /\ Received(status)
         /\ IF check_errors(status)
                THEN results' = ListJSON(Assigned(remotePerms)) /\ Goto("store")
                ELSE results' = results /\ SysExit
    /\ UNCHANGED <<remoteVars, dirs, files, ignored_principals, serverPages, page_token,
                   reqTokens, permVars, loopVars, logVars, pointVars, interference, external, cleanups>>

\* self.store(permissions, "permission_assignments")
PermStore ==
    /\ Running /\ cmd = "stop" /\ ctl = PERM /\ pc = "store"
    /\ store(results, PERM)
    /\ results' = EmptyJSON
    /\ Goto("get_ids")
    /\ UNCHANGED <<remoteVars, ignored_principals, serverPages, page_token, reqTokens,
                   permVars, loopVars, logVars, pointVars, interference, external, cleanups, failed>>

\* somebody else grants, changes or revokes an assignment between the two reads
ExternalChange ==
    /\ Running /\ cmd = "stop" /\ ctl = PERM /\ pc = "get_ids"
    /\ interference /\ external < MaxExternal
    /\ \E p \in Principals, v \in Perms \cup {NoPerm} :
         /\ v # remotePerms[p]
         /\ remotePerms' = [remotePerms EXCEPT ![p] = v]
    /\ external' = external + 1
    /\ UNCHANGED <<remoteJobs, remoteClusters, remoteRuns, remoteWarehouses, omitEmpty,
                   dirs, files, ignored_principals, procVars, fetchVars, permVars,
                   loopVars, logVars, pointVars, interference, cleanups, failed>>

\* faulty variant: the ignore filter is never applied
FilterIgnored_keepAll(ids, ignored) == ids

\* principal_ids = [p for p in principal_ids if p not in ignored_principals]
FilterIgnored(ids, ignored) ==
    IF ignored # {}
      THEN SelectIdx(ids, 1, { i \in 1..Len(ids) : ids[i] \notin ignored })
      ELSE ids

\* principal_ids = self._get_principal_ids(), then the ignore filter and the submits
PermGetIds ==
    /\ Running /\ cmd = "stop" /\ ctl = PERM /\ pc = "get_ids"
    /\ \E status \in Statuses :
         LET response == ListJSON(Assigned(remotePerms))
             ids == [i \in 1..Len(response.items) |-> response.items[i].principal_id]
             kept == FilterIgnored(ids, ignored_principals)
         IN /\ Received(status)
            /\ IF ~check_errors(status)
                 THEN SysExit /\ UNCHANGED <<principal_ids, idsResponse, taskState>>
                 ELSE IF ~response.has
                   THEN Raise /\ UNCHANGED <<principal_ids, idsResponse, taskState>>
                   ELSE /\ idsResponse' = ids
                        /\ principal_ids' = kept
                        /\ taskState' = [i \in 1..Len(kept) |-> "pending"]
                        /\ Goto("tasks")
    /\ UNCHANGED <<remoteVars, dirs, files, ignored_principals, fetchVars, assignments,
                   loopVars, logVars, pointVars, interference, external, cleanups>>

\* a worker runs _remove_permission(principal_id): DELETE, then check_errors
RemovePermission(i, outcome) ==
    /\ Running /\ cmd = "stop" /\ ctl = PERM /\ pc = "tasks"
    /\ i \in DOMAIN taskState /\ taskState[i] = "pending"
    /\ calls' = calls \cup {Call(PERM, "DELETE", principal_ids[i])}
    /\ remotePerms' = IF outcome = "ok"
                        THEN [remotePerms EXCEPT ![principal_ids[i]] = NoPerm]
                        ELSE remotePerms
    /\ taskState' = [taskState EXCEPT ![i] = outcome]
    /\ UNCHANGED <<remoteJobs, remoteClusters, remoteRuns, remoteWarehouses, omitEmpty,
                   dirs, files, ignored_principals, procVars, fetchVars, principal_ids,
                   idsResponse, assignments, loopVars, updates, reported, logged,
                   pointVars, interference, external, cleanups, failed>>

\* index of the first future whose result() raises SystemExit, 0 when none does
FirstSystemExit(ts) ==
    IF \E i \in DOMAIN ts : ts[i] = "http"
      THEN CHOOSE i \in DOMAIN ts : ts[i] = "http" /\ \A j \in 1..(i - 1) : ts[j] # "http"
      ELSE 0

\* "except Exception" prints one line for every future that raised an Exception
\* and was reached by the result() loop
LoggedErrors(ts) ==
    LET stop == FirstSystemExit(ts)
        last == IF stop = 0 THEN Len(ts) ELSE stop - 1
    IN Cardinality({ i \in 1..last : ts[i] = "exc" })

\* the number the closing print reports for n submitted tasks
ReportedCount(n, ts) == n

\* the result() loop, the executor's shutdown(wait=True) and the closing print
JoinTasks(n) ==
    /\ \A i \in DOMAIN taskState : taskState[i] # "pending"
    /\ logged' = LoggedErrors(taskState)
    /\ IF FirstSystemExit(taskState) # 0
         THEN reported' = reported /\ SysExit
         ELSE reported' = ReportedCount(n, taskState) /\ Return

PermStopJoin ==
    /\ Running /\ cmd = "stop" /\ ctl = PERM /\ pc = "tasks"
    /\ JoinTasks(Len(principal_ids))
    /\ UNCHANGED <<remoteVars, dirs, files, ignored_principals, fetchVars, permVars,
                   loopVars, calls, updates, pointVars, interference, external, cleanups, failed>>

(* ---------------- DatabricksFeature.combine_paginated_results ---------- *)
Paginated == {WF, APC, RUNS, SQLW}
ClearFetch == serverPages' = <<>> /\ page_token' = NoToken /\ reqTokens' = <<>>

\* faulty variant: a page is put in front of what was aggregated so far
Aggregate_prepend(acc, page) == [has |-> acc.has, items |-> page.items \o acc.items]

\* results[aggregate_on] += response.json()[aggregate_on]
Aggregate(acc, page) == [has |-> acc.has, items |-> acc.items \o page.items]

\* the first GET, sent with the caller's params
FetchFirst ==
    /\ Running /\ cmd = "stop" /\ ctl \in Paginated /\ pc = "start"
    /\ \E status \in Statuses :
         /\ Received(status)
         /\ IF ~check_errors(status)
              THEN SysExit /\ UNCHANGED fetchVars
              ELSE \E pages \in Splits(RemoteList(ctl)) :
                     LET response == ServerGet(pages, NoToken)
                     IN /\ serverPages' = pages
                        /\ reqTokens' = <<NoToken>>
                        /\ results' = [has |-> response.has, items |-> response.items]
                        /\ page_token' = response.next_page_token
                        /\ Goto(IF response.has_more THEN "fetch_more" ELSE "fetched")
    /\ UNCHANGED <<remoteVars, dirs, files, ignored_principals, permVars, loopVars,
                   logVars, pointVars, interference, external, cleanups>>

\* one turn of "while has_more"
FetchNext ==
    /\ Running /\ cmd = "stop" /\ ctl \in Paginated /\ pc = "fetch_more"
    /\ IF ~results.has
         THEN Raise /\ UNCHANGED <<fetchVars, failed>>
         ELSE \E status \in Statuses :
                LET response == ServerGet(serverPages, page_token)
                IN /\ Received(status)
                   /\ reqTokens' = Append(reqTokens, page_token)
                   /\ serverPages' = serverPages
                   /\ IF ~check_errors(status)
                        THEN SysExit /\ UNCHANGED <<results, page_token>>
                        ELSE /\ page_token' = response.next_page_token
                             /\ IF ~response.has
                                  THEN Raise /\ results' = results
                                  ELSE /\ results' = Aggregate(results, response)
                                       /\ Goto(IF response.has_more THEN "fetch_more"
                                                                    ELSE "fetched")
    /\ UNCHANGED <<remoteVars, dirs, files, ignored_principals, permVars, loopVars,
                   logVars, pointVars, interference, external, cleanups>>

(* ----------------------------- Workflows ------------------------------ *)
MechName(m) == CASE m = 1 -> "schedule" [] m = 2 -> "continuous" [] OTHER -> "trigger"

\* workflow["settings"].get(name, {}).get("pause_status")
PauseStatus(job, m) ==
    CASE m = 1 -> job.settings.schedule.pause_status
      [] m = 2 -> job.settings.continuous.pause_status
      [] OTHER -> job.settings.trigger.pause_status

\* faulty variant: the schedule payload loses the recorded cron expression
Payload_dropCron(job, m, status) ==
    IF m = 1
      THEN [pause_status |-> status, quartz_cron_expression |-> AbsentField,
            timezone_id |-> job.settings.schedule.timezone_id]
      ELSE [pause_status |-> status, other |-> AbsentField]

\* the new_settings entry sent for a mechanism
Payload(job, m, status) ==
    IF m = 1
      THEN [pause_status |-> status,
            quartz_cron_expression |-> job.settings.schedule.quartz_cron_expression,
            timezone_id |-> job.settings.schedule.timezone_id]
      ELSE [pause_status |-> status, other |-> AbsentField]

\* POST jobs/update: each top-level field of new_settings replaces the job's field
JobsUpdate(jobs, id, m, payload) ==
    CASE m = 1 -> [jobs EXCEPT ![id].schedule = payload]
      [] m = 2 -> [jobs EXCEPT ![id].continuous = payload]
      [] OTHER -> [jobs EXCEPT ![id].trigger = payload]

\* not workflows.get("jobs")
NoItems(json) == ~json.has \/ json.items = <<>>

\* after _get(): the early return, or store and the start of the loop
WorkflowsStopStore ==
    /\ Running /\ cmd = "stop" /\ ctl = WF /\ pc = "fetched"
    /\ IF NoItems(results)
         THEN Return /\ UNCHANGED <<files, dirs, loopVars>>
         ELSE /\ store(results, WF)
              /\ todo' = results.items /\ idx' = 1 /\ mech' = 1
              /\ Goto("loop")
    /\ results' = EmptyJSON /\ ClearFetch
    /\ UNCHANGED <<remoteVars, ignored_principals, permVars, logVars, pointVars, interference, external, cleanups, failed>>

\* the step after one "if" of the loop body: next mechanism, next job, or the end
AdvanceMech ==
    IF mech < 3
      THEN mech' = mech + 1 /\ idx' = idx /\ Goto("loop")
      ELSE /\ mech' = 1 /\ idx' = idx + 1
           /\ IF idx < Len(todo) THEN Goto("loop") ELSE Return

\* one "if" of the loop body of stop() or restore(): the POST when the mechanism
\* is UNPAUSED in the fetched (or recorded) settings
WorkflowsVisit(newStatus) ==
    LET job == todo[idx]
    IN IF PauseStatus(job, mech) = "UNPAUSED"
         THEN \E status \in Statuses :
                /\ Received(status)
                /\ calls' = calls \cup {Call(WF, "update", job.job_id)}
                /\ updates' = updates \cup {[job_id |-> job.job_id, field |-> MechName(mech),
                                             payload |-> Payload(job, mech, newStatus)]}
                /\ IF check_errors(status)
                     THEN /\ remoteJobs' = JobsUpdate(remoteJobs, job.job_id, mech,
                                                      Payload(job, mech, newStatus))
                          /\ AdvanceMech
                     ELSE SysExit /\ UNCHANGED <<remoteJobs, idx, mech>>
         ELSE AdvanceMech /\ UNCHANGED <<calls, updates, remoteJobs, failed>>

WorkflowsStopVisit ==
    /\ Running /\ cmd = "stop" /\ ctl = WF /\ pc = "loop"
    /\ WorkflowsVisit("PAUSED")
    /\ UNCHANGED <<remotePerms, remoteClusters, remoteRuns, remoteWarehouses, omitEmpty,
                   dirs, files, ignored_principals, fetchVars, permVars, todo, reported,
                   logged, pointVars, interference, external, cleanups>>

(* ------------------ sequential loops of the other kinds ---------------- *)
\* the step after one turn of a "for" loop
AdvanceItem == idx' = idx + 1 /\ (IF idx < Len(todo) THEN Goto("loop") ELSE Return)

\* faulty variant: terminated clusters are not filtered out
Unterminated_all(items) == items

\* [cluster for cluster in clusters["clusters"] if cluster["state"] != "TERMINATED"]
Unterminated(items) ==
    SelectIdx(items, 1, { i \in 1..Len(items) : items[i].state # "TERMINATED" })

AllPurposeComputeStopStore ==
    /\ Running /\ cmd = "stop" /\ ctl = APC /\ pc = "fetched"
    /\ store(results, APC)
    /\ IF ~results.has
         THEN Raise /\ UNCHANGED <<todo, idx>>
         ELSE /\ todo' = Unterminated(results.items) /\ idx' = 1
              /\ IF Unterminated(results.items) = <<>> THEN Return ELSE Goto("loop")
    /\ results' = EmptyJSON /\ ClearFetch
    /\ UNCHANGED <<remoteVars, ignored_principals, permVars, mech, logVars, pointVars, interference,
                   external, cleanups, failed>>

\* POST clusters/delete, then the inline status check
AllPurposeComputeStopVisit ==
    /\ Running /\ cmd = "stop" /\ ctl = APC /\ pc = "loop"
    /\ \E status \in Statuses :
         /\ Received(status)
         /\ calls' = calls \cup {Call(APC, "delete", todo[idx].cluster_id)}
         /\ IF status # HTTP_OK
              THEN SysExit /\ UNCHANGED <<remoteClusters, idx>>
              ELSE /\ remoteClusters' = [remoteClusters EXCEPT ![todo[idx].cluster_id] = "TERMINATED"]
                   /\ AdvanceItem
    /\ UNCHANGED <<remotePerms, remoteJobs, remoteRuns, remoteWarehouses, omitEmpty, dirs,
                   files, ignored_principals, fetchVars, permVars, todo, mech, updates,
                   reported, logged, pointVars, interference, external, cleanups>>

JobRunsStopStore ==
    /\ Running /\ cmd = "stop" /\ ctl = RUNS /\ pc = "fetched"
    /\ store(results, RUNS)
    /\ IF NoItems(results)
         THEN Return /\ UNCHANGED <<todo, idx>>
         ELSE todo' = results.items /\ idx' = 1 /\ Goto("loop")
    /\ results' = EmptyJSON /\ ClearFetch
    /\ UNCHANGED <<remoteVars, ignored_principals, permVars, mech, logVars, pointVars, interference,
                   external, cleanups, failed>>

\* POST jobs/runs/cancel
JobRunsStopVisit ==
    /\ Running /\ cmd = "stop" /\ ctl = RUNS /\ pc = "loop"
    /\ \E status \in Statuses :
         /\ Received(status)
         /\ calls' = calls \cup {Call(RUNS, "cancel", todo[idx].run_id)}
         /\ IF check_errors(status)
              THEN /\ remoteRuns' = [remoteRuns EXCEPT ![todo[idx].run_id] = FALSE]
                   /\ AdvanceItem
              ELSE SysExit /\ UNCHANGED <<remoteRuns, idx>>
    /\ UNCHANGED <<remotePerms, remoteJobs, remoteClusters, remoteWarehouses, omitEmpty,
                   dirs, files, ignored_principals, fetchVars, permVars, todo, mech,
                   updates, reported, logged, pointVars, interference, external, cleanups>>

SQLWarehousesStopStore ==
    /\ Running /\ cmd = "stop" /\ ctl = SQLW /\ pc = "fetched"
    /\ store(results, SQLW)
    /\ IF NoItems(results)
         THEN Return /\ UNCHANGED <<todo, idx>>
         ELSE todo' = results.items /\ idx' = 1 /\ Goto("loop")
    /\ results' = EmptyJSON /\ ClearFetch
    /\ UNCHANGED <<remoteVars, ignored_principals, permVars, mech, logVars, pointVars, interference,
                   external, cleanups, failed>>

\* POST sql/warehouses/{id}/stop for a warehouse fetched in a state other than STOPPED
SQLWarehousesStopVisit ==
    /\ Running /\ cmd = "stop" /\ ctl = SQLW /\ pc = "loop"
    /\ IF todo[idx].state # "STOPPED"
         THEN \E status \in Statuses :
                /\ Received(status)
                /\ calls' = calls \cup {Call(SQLW, "stop", todo[idx].id)}
                /\ IF check_errors(status)
                     THEN /\ remoteWarehouses' = [remoteWarehouses EXCEPT ![todo[idx].id] = "STOPPED"]
                          /\ AdvanceItem
                     ELSE SysExit /\ UNCHANGED <<remoteWarehouses, idx>>
         ELSE AdvanceItem /\ UNCHANGED <<calls, remoteWarehouses, failed>>
    /\ UNCHANGED <<remotePerms, remoteJobs, remoteClusters, remoteRuns, omitEmpty, dirs,
                   files, ignored_principals, fetchVars, permVars, todo, mech, updates,
                   reported, logged, pointVars, interference, external, cleanups>>

(* ------------------------ the restore command ------------------------ *)
\* one of the two files restore opens is removed by hand before the restore
\* reads any (the tool itself never deletes a snapshot)
ExternalCleanup ==
    /\ Running /\ cmd = "restore" /\ ctl = PERM /\ pc = "start"
    /\ cleanups < MaxExternal
    /\ \E k \in {PERM, WF} :
         /\ files[k].exists
         /\ files' = [files EXCEPT ![k] = NoFile]
    /\ cleanups' = cleanups + 1
    /\ UNCHANGED <<remoteVars, dirs, ignored_principals, procVars, fetchVars, permVars,
                   loopVars, logVars, pointVars, interference, external, failed>>

\* the restore command: a new process; choose_restore_point exits when
\* restore_states is missing or holds no directory of the environment
choose_restore_point ==
    /\ ~Running /\ cmd = "stop"
    /\ cmd' = "restore" /\ ctl' = PERM /\ pc' = "start" /\ returned' = {}
    /\ term' = IF dirs = "rundir" THEN "running" ELSE "sysexit"
    /\ serverPages' = <<>> /\ results' = EmptyJSON /\ page_token' = NoToken /\ reqTokens' = <<>>
    /\ principal_ids' = <<>> /\ idsResponse' = <<>> /\ assignments' = <<>> /\ taskState' = <<>>
    /\ todo' = <<>> /\ idx' = 1 /\ mech' = 1
    /\ calls' = {} /\ updates' = {} /\ reported' = -1 /\ logged' = 0
    /\ ignored_principals' = {}
    /\ failed' = FALSE
    /\ UNCHANGED <<remoteVars, dirs, files, pointVars, interference, external, cleanups>>

(* ------------------- WorkspacePermissions.restore --------------------- *)
\* open + json.load of permission_assignments.json, then the submits
PermRestoreOpen ==
    /\ Running /\ cmd = "restore" /\ ctl = PERM /\ pc = "start"
    /\ IF ~files[PERM].exists \/ ~files[PERM].has
         THEN Raise /\ UNCHANGED <<assignments, taskState>>
         ELSE /\ assignments' = files[PERM].items
              /\ taskState' = [i \in 1..Len(files[PERM].items) |-> "pending"]
              /\ Goto("tasks")
    /\ UNCHANGED <<remoteVars, dirs, files, ignored_principals, fetchVars, principal_ids,
                   idsResponse, loopVars, logVars, pointVars, interference, external, cleanups, failed>>

\* faulty variant: the PUT grants the plain level whatever the snapshot recorded
PutAssignment_user(rp, assignment) == [rp EXCEPT ![assignment.principal_id] = "USER"]

\* PUT .../principals/{principal_id} with json=assignment
PutAssignment(rp, assignment) ==
    [rp EXCEPT ![assignment.principal_id] = assignment.permissions]

\* a worker runs _restore_permission(assignment): PUT json=assignment, check_errors
RestorePermission(i, outcome) ==
    /\ Running /\ cmd = "restore" /\ ctl = PERM /\ pc = "tasks"
    /\ i \in DOMAIN taskState /\ taskState[i] = "pending"
    /\ calls' = calls \cup {Call(PERM, "PUT", assignments[i].principal_id)}
    /\ remotePerms' = IF outcome = "ok"
                        THEN PutAssignment(remotePerms, assignments[i])
                        ELSE remotePerms
    /\ taskState' = [taskState EXCEPT ![i] = outcome]
    /\ UNCHANGED <<remoteJobs, remoteClusters, remoteRuns, remoteWarehouses, omitEmpty,
                   dirs, files, ignored_principals, procVars, fetchVars, principal_ids,
                   idsResponse, assignments, loopVars, updates, reported, logged,
                   pointVars, interference, external, cleanups, failed>>

PermRestoreJoin ==
    /\ Running /\ cmd = "restore" /\ ctl = PERM /\ pc = "tasks"
    /\ JoinTasks(Len(assignments))
    /\ UNCHANGED <<remoteVars, dirs, files, ignored_principals, fetchVars, permVars,
                   loopVars, calls, updates, pointVars, interference, external, cleanups, failed>>

(* ------------------------- Workflows.restore -------------------------- *)
\* faulty variant: FileNotFoundError is not caught
WorkflowsRestoreOpen_raise ==
    /\ Running /\ cmd = "restore" /\ ctl = WF /\ pc = "start"
    /\ IF ~files[WF].exists
         THEN Raise /\ UNCHANGED loopVars
         ELSE IF NoItems(files[WF])
           THEN Return /\ UNCHANGED loopVars
           ELSE todo' = files[WF].items /\ idx' = 1 /\ mech' = 1 /\ Goto("loop")
    /\ UNCHANGED <<remoteVars, dirs, files, ignored_principals, fetchVars, permVars,
                   logVars, pointVars, interference, external, cleanups, failed>>

\* open workflows.json; FileNotFoundError and an empty list both return
WorkflowsRestoreOpen ==
    /\ Running /\ cmd = "restore" /\ ctl = WF /\ pc = "start"
    /\ IF ~files[WF].exists \/ NoItems(files[WF])
         THEN Return /\ UNCHANGED loopVars
         ELSE todo' = files[WF].items /\ idx' = 1 /\ mech' = 1 /\ Goto("loop")
    /\ UNCHANGED <<remoteVars, dirs, files, ignored_principals, fetchVars, permVars,
                   logVars, pointVars, interference, external, cleanups, failed>>

WorkflowsRestoreVisit ==
    /\ Running /\ cmd = "restore" /\ ctl = WF /\ pc = "loop"
    /\ WorkflowsVisit("UNPAUSED")
    /\ UNCHANGED <<remotePerms, remoteClusters, remoteRuns, remoteWarehouses, omitEmpty,
                   dirs, files, ignored_principals, fetchVars, permVars, todo, reported,
                   logged, pointVars, interference, external, cleanups>>

(* ------------- restore of the kinds that are not restored ------------- *)
\* JobRuns.restore, AllPurposeCompute.restore, SQLWarehouses.restore: a print
NoRestore(k) ==
    /\ Running /\ cmd = "restore" /\ ctl = k /\ pc = "start"
    /\ Return
    /\ UNCHANGED <<remoteVars, dirs, files, ignored_principals, fetchVars, permVars,
                   loopVars, logVars, pointVars, interference, external, cleanups, failed>>

JobRunsRestore == NoRestore(RUNS)
AllPurposeComputeRestore == NoRestore(APC)
SQLWarehousesRestore == NoRestore(SQLW)

(* --------------------------- specification ---------------------------- *)
Outcomes == {"ok", "http", "exc"}
TaskIds == 1..NumPrincipals

Next ==
    \/ PermGet
    \/ PermStore
    \/ ExternalChange
    \/ PermGetIds
    \/ \E i \in TaskIds, o \in Outcomes : RemovePermission(i, o)
    \/ PermStopJoin
    \/ FetchFirst
    \/ FetchNext
    \/ WorkflowsStopStore
    \/ WorkflowsStopVisit
    \/ AllPurposeComputeStopStore
    \/ AllPurposeComputeStopVisit
    \/ JobRunsStopStore
    \/ JobRunsStopVisit
    \/ SQLWarehousesStopStore
    \/ SQLWarehousesStopVisit
    \/ ExternalCleanup
    \/ choose_restore_point
    \/ PermRestoreOpen
    \/ \E i \in TaskIds, o \in Outcomes : RestorePermission(i, o)
    \/ PermRestoreJoin
    \/ WorkflowsRestoreOpen
    \/ WorkflowsRestoreVisit
    \/ JobRunsRestore
    \/ AllPurposeComputeRestore
    \/ SQLWarehousesRestore

Spec == Init /\ [][Next]_vars

(* ------ choose_restore_point over the snapshots of several environments ------ *)
\* f"{rtl_env}_{start_time}"
DirName(env, start_time) == env \o <<"_">> \o start_time

\* d.startswith(prefix)
startswith(d, prefix) == Len(prefix) <= Len(d) /\ SubSeq(d, 1, Len(prefix)) = prefix

Reverse(s) == [i \in 1..Len(s) |-> s[Len(s) + 1 - i]]

\* dirs: the directories whose name starts with rtl_env, most recently modified first
ListDirs(states, env) ==
    Reverse(SelectIdx(states, 1, { i \in 1..Len(states) : startswith(states[i].name, env) }))

\* what the user types at the prompt: digits (with their value) or anything else
Choices ==
    {[isdigit |-> FALSE, int |-> 0]} \cup { [isdigit |-> TRUE, int |-> n] : n \in 0..(MaxSnapshots + 1) }

\* the prompt is shown for more than one directory; any other input selects the latest
SelectFolder(ds, choice) ==
    IF Len(ds) > 1 /\ choice.isdigit /\ 1 <= choice.int /\ choice.int <= Len(ds)
      THEN ds[choice.int]
      ELSE ds[1]

\* a stop command of environment env started at start_time writes its first
\* snapshot file: makedirs(exist_ok=True) and a file created in the directory
StoreSnapshot(env, start_time) ==
    LET d == [name |-> DirName(env, start_time), env |-> env]
        others == SelectIdx(restore_states, 1,
                            { i \in 1..Len(restore_states) : restore_states[i] # d })
    IN /\ Len(others) < MaxSnapshots
       /\ restore_states' = Append(others, d)
       /\ UNCHANGED <<rtl_env, backup_folder, runVars>>

\* the restore command of environment env: choose_restore_point(rtl_env=env)
ChooseRestorePoint(env, choice) ==
    LET ds == ListDirs(restore_states, env)
    IN /\ rtl_env' = env
       /\ backup_folder' = IF ds = <<>> THEN NoFolder ELSE SelectFolder(ds, choice)
       /\ UNCHANGED <<restore_states, runVars>>

InitRestorePoint ==
    /\ AlreadyStopped /\ interference = FALSE
    /\ InitRest /\ omitEmpty = FALSE

NextRestorePoint ==
    \/ \E env \in EnvNames, start_time \in StartTimes : StoreSnapshot(env, start_time)
    \/ \E env \in EnvNames, choice \in Choices : ChooseRestorePoint(env, choice)

SpecRestorePoint == InitRestorePoint /\ [][NextRestorePoint]_vars

(* ------------------------------ claims -------------------------------- *)
CallsOf(k) == { c \in calls : c.kind = k }
Revoked == { c.id : c \in { d \in calls : d.kind = PERM /\ d.op = "DELETE" } }
AssignedNow == { p \in Principals : remotePerms[p] # NoPerm }

\* stop() of the permissions kind has left its executor block
BulkRevokeOver ==
    /\ cmd = "stop"
    /\ PERM \in returned \/ (ctl = PERM /\ pc = "tasks" /\ term = "sysexit")

\* C1: the principal ids listed by the second read are the principals assigned
\* at that moment; stop() never issues a DELETE for a principal of the ignore
\* list or for one that was not listed, and once the executor block is over it
\* has issued one for exactly the listed principals outside the ignore list.
C1_PermissionExemption ==
    cmd = "stop" =>
      /\ (ctl = PERM /\ pc = "tasks" /\ \A i \in DOMAIN taskState : taskState[i] = "pending")
            => Range(idsResponse) = AssignedNow
      /\ Revoked \subseteq (Range(idsResponse) \ ignored_principals)
      /\ BulkRevokeOver => Revoked = Range(idsResponse) \ ignored_principals

C1_Witness ==
    /\ BulkRevokeOver /\ PERM \in returned
    /\ Range(idsResponse) = Principals
    /\ ignored_principals = {1}
    /\ Revoked = Principals \ {1}

\* restore() of the workflows kind has returned after reading a snapshot
WorkflowsRestored == cmd = "restore" /\ WF \in returned /\ files[WF].exists

\* C2: once Workflows.restore() has returned for the snapshot stop() wrote, every
\* recorded job has the schedule it had in the snapshot (pause_status, cron
\* expression and timezone), and its continuous and trigger pause_status are the
\* recorded ones: UNPAUSED is UNPAUSED again and PAUSED is still PAUSED.
C2_WorkflowRestoreFidelity ==
    WorkflowsRestored =>
      \A i \in 1..Len(files[WF].items) :
        LET recorded == files[WF].items[i].settings
            now == remoteJobs[files[WF].items[i].job_id]
        IN /\ now.schedule = recorded.schedule
           /\ now.continuous.pause_status = recorded.continuous.pause_status
           /\ now.trigger.pause_status = recorded.trigger.pause_status

C2_Witness ==
    /\ WorkflowsRestored
    /\ Len(files[WF].items) = 2
    /\ files[WF].items[1].settings.schedule.pause_status = "UNPAUSED"
    /\ files[WF].items[2].settings.schedule.pause_status = "PAUSED"
    /\ remoteJobs[1].schedule.pause_status = "UNPAUSED"
    /\ remoteJobs[1].schedule.quartz_cron_expression = "c2"
    /\ remoteJobs[2].schedule.pause_status = "PAUSED"
    /\ \E u \in updates : u.job_id = 1 /\ u.field = "schedule"

\* the executor block of the permissions operation (stop or restore) is over
BulkOver == PERM \in returned \/ (ctl = PERM /\ pc = "tasks" /\ term # "running")

\* C3 (as claimed): when the bulk revoke or grant is over every task has been
\* executed, whatever the other tasks did, and a failed task is not re-raised:
\* the process never ends inside the permissions operation's executor block.
C3_ConcurrentFailureIsolation ==
    /\ BulkOver => \A i \in DOMAIN taskState : taskState[i] # "pending"
    /\ ~(ctl = PERM /\ pc = "tasks" /\ term # "running")

\* C4 (as claimed): the count the permissions operation reports is the number
\* of tasks that completed without failure.
C4_ReportedCountIsSuccesses ==
    reported # -1 => reported = Count(taskState, "ok")

AllStopped(k) ==
    CASE k = PERM -> AssignedNow \subseteq ignored_principals
      [] k = WF -> \A i \in 1..Len(remoteJobs) :
                     /\ remoteJobs[i].schedule.pause_status # "UNPAUSED"
                     /\ remoteJobs[i].continuous.pause_status # "UNPAUSED"
                     /\ remoteJobs[i].trigger.pause_status # "UNPAUSED"
      [] k = APC -> \A i \in 1..Len(remoteClusters) : remoteClusters[i] = "TERMINATED"
      [] k = RUNS -> \A i \in 1..Len(remoteRuns) : ~remoteRuns[i]
      [] k = SQLW -> \A i \in 1..Len(remoteWarehouses) : remoteWarehouses[i] = "STOPPED"

\* C5: while every item of a kind is in its stopped state, no step of a stop
\* invocation issues a mutating call for that kind.
C5_StopIdempotency ==
    [][(cmd = "stop" /\ cmd' = "stop") =>
         \A k \in Kinds : AllStopped(k) => CallsOf(k)' = CallsOf(k)]_vars

C5_Witness ==
    /\ cmd = "stop" /\ term = "done" /\ calls = {}
    /\ \A k \in Kinds : AllStopped(k) /\ files[k].exists
    /\ Len(remoteJobs) = 2 /\ Len(remoteClusters) = 1 /\ Len(remoteWarehouses) = 1
    /\ AssignedNow # {}

PageItems == [i \in 1..Len(serverPages) |-> serverPages[i].items]
RECURSIVE SumLen(_)
SumLen(ss) == IF ss = <<>> THEN 0 ELSE Len(Head(ss)) + SumLen(Tail(ss))

\* combine_paginated_results has returned and the caller has not yet used the result
Fetched == Running /\ cmd = "stop" /\ ctl \in Paginated /\ pc = "fetched"

\* C6: when combine_paginated_results returns, the aggregated array is the
\* concatenation of the pages' arrays in page order, its length is the sum of
\* the pages' lengths, one GET was sent per page, the first without a token and
\* each later one with the token the page before it returned.
C6_PaginationAggregation ==
    Fetched =>
      /\ results.items = Flatten(PageItems)
      /\ Len(results.items) = SumLen(PageItems)
      /\ (\A i \in 1..Len(serverPages) : serverPages[i].has) => results.has
      /\ Len(reqTokens) = Len(serverPages)
      /\ reqTokens[1] = NoToken
      /\ \A i \in 2..Len(reqTokens) : reqTokens[i] = serverPages[i - 1].next_page_token

C6_Witness ==
    /\ Fetched
    /\ Len(serverPages) = 2
    /\ Len(serverPages[1].items) = 1 /\ Len(serverPages[2].items) = 1
    /\ serverPages[1].items # serverPages[2].items
    /\ Len(results.items) = 2

\* C7 (as claimed): a process that ends on a fatal error exits with a non-zero
\* status, and the status is zero only when no fatal error occurred.
C7_ExitCodes ==
    /\ term \in {"sysexit", "exception"} => ExitStatus # 0
    /\ term = "done" => ExitStatus = 0

\* C8: in a stop invocation, every mutating call issued so far is of a kind
\* whose snapshot file has already been written.
C8_SnapshotBeforeMutation ==
    cmd = "stop" => \A c \in calls : files[c.kind].exists

C8_Witness ==
    /\ cmd = "stop"
    /\ \E c \in calls : c.kind = WF
    /\ \E c \in calls : c.kind = APC
    /\ \E c \in calls : c.kind = RUNS
    /\ \E c \in calls : c.kind = SQLW
    /\ \A k \in Kinds : files[k].exists

\* restore() of the permissions kind has returned and none of its tasks failed
PermissionsRestored ==
    /\ cmd = "restore" /\ PERM \in returned
    /\ \A i \in DOMAIN taskState : taskState[i] = "ok"

\* C9: when nobody else changed the assignments, after restore() has returned
\* with no failed task the workspace holds exactly the assignments of the
\* snapshot, each with the recorded permission.
C9_PermissionRestoreRoundTrip ==
    (PermissionsRestored /\ external = 0) => Assigned(remotePerms) = files[PERM].items

C9_Witness ==
    /\ PermissionsRestored /\ external = 0
    /\ Len(files[PERM].items) = 2
    /\ files[PERM].items[1].permissions = "ADMIN"
    /\ files[PERM].items[2].permissions = "USER"
    /\ Cardinality({ c \in calls : c.kind = PERM /\ c.op = "PUT" }) = 2

\* C10: in a restore run, a missing snapshot of a kind other than permissions
\* causes no call for that kind and never ends the process in that kind's
\* controller; a missing permissions snapshot ends the process with an
\* exception before any controller has returned or any call was issued.
C10_MissingSnapshotOnRestore ==
    (cmd = "restore" /\ dirs = "rundir") =>
      /\ \A k \in Kinds \ {PERM} :
           ~files[k].exists => (CallsOf(k) = {} /\ (ctl = k => term \in {"running", "done"}))
      /\ ~files[PERM].exists =>
           /\ returned = {} /\ calls = {} /\ ctl = PERM /\ pc = "start"
           /\ term \in {"running", "exception"}

C10_Witness ==
    /\ cmd = "restore" /\ term = "done"
    /\ ~files[WF].exists /\ ~files[APC].exists
    /\ files[PERM].exists /\ returned = Kinds

\* C11: once a sequential required call (a fetch, a workflow update, a run
\* cancel, a cluster delete or a warehouse stop) has received a non-200 response,
\* the invocation is over: the process has exited, no further mutating call is
\* issued, nothing changes remotely and no later controller runs or returns.
C11_FatalHTTPError ==
    /\ [](failed => term = "sysexit")
    /\ [][(failed /\ cmd' = cmd) =>
             /\ calls' = calls /\ updates' = updates
             /\ remoteVars' = remoteVars /\ files' = files
             /\ ctl' = ctl /\ returned' = returned]_vars

\* a cluster delete was refused: the runs and warehouses are left as they were
C11_Witness ==
    /\ failed /\ cmd = "stop" /\ ctl = APC /\ pc = "loop" /\ CallsOf(APC) # {}
    /\ returned = {PERM, WF}
    /\ CallsOf(RUNS) = {} /\ CallsOf(SQLW) = {}
    /\ remoteRuns = <<TRUE>> /\ remoteWarehouses = <<"RUNNING">>

\* the settings object the snapshot records for a mechanism of a job
RecordedMechanism(job_id, field) ==
    LET job == CHOOSE j \in Range(files[WF].items) : j.job_id = job_id
    IN job.settings[field]

\* C12: the payload of every jobs/update sent by Workflows.stop or
\* Workflows.restore for a mechanism (schedule, continuous, trigger) carries
\* every field of the mechanism's recorded settings unchanged, pause_status
\* being the only field that differs.
C12_FieldPreservation ==
    \A u \in updates :
        /\ files[WF].exists
        /\ LET recorded == RecordedMechanism(u.job_id, u.field)
           IN [u.payload EXCEPT !.pause_status = recorded.pause_status] = recorded

\* principals whose DELETE was answered 200 in the running stop
RevokedByStop ==
    { principal_ids[i] : i \in { j \in DOMAIN taskState : taskState[j] = "ok" } }

\* principals the permission snapshot records
SnapshotPrincipals ==
    { files[PERM].items[i].principal_id : i \in DOMAIN files[PERM].items }

\* C13: every principal whose assignment WorkspacePermissions.stop revokes is
\* recorded in the permission snapshot that stop wrote, also when assignments
\* are granted or removed by others between the two reads of stop.
C13_RevokedAreRecorded ==
    cmd = "stop" => RevokedByStop \subseteq SnapshotPrincipals

\* the list response stop fetched for a kind carried no array: Workflows.stop
\* returns before it stores, the other kinds store the response as fetched
FetchedNoArray(k) ==
    IF k = WF
      THEN omitEmpty /\ remoteJobs = <<>> /\ (WF \in returned \/ (ctl = WF /\ pc = "fetched"))
      ELSE files[k].exists /\ ~files[k].has

\* C14: for every resource kind, when the collection stop fetched is empty (no
\* array under the aggregate key, has_more false), that kind's stop issues no
\* mutating call and is not ended by an exception, so that halt_environment
\* goes on with the remaining kinds.
C14_EmptyCollectionReturns ==
    (cmd = "stop" /\ external = 0) =>
        \A k \in Kinds :
            FetchedNoArray(k) => CallsOf(k) = {} /\ ~(ctl = k /\ term = "exception")

\* C15: the restore point choose_restore_point returns for an environment is
\* a snapshot directory written by a stop of that same environment, whatever
\* directories of other environments exist and whatever is typed at the prompt.
C15_RestorePointOfSameEnvironment ==
    backup_folder # NoFolder => backup_folder.env = rtl_env

====
